---------------------------- MODULE Spec2Model ----------------------------
(***************************************************************************)
(* Model of github.com/srelab/common: the logging facade (log/log.go) over *)
(* the logrus engine, and the ID-card validator (validator/id.go).         *)
(*                                                                         *)
(* Go strings are modelled as sequences of one-character strings, so that  *)
(* slicing, strings.LastIndex, path splitting, fmt.Sprintf and ToLower are *)
(* computed character by character, as the code computes them.             *)
(***************************************************************************)
EXTENDS Integers, Sequences, FiniteSets, TLC

VARIABLES
    loggers,    \* heap of *logrus.Logger objects: sequence of [Level, Out]
    entries,    \* facade handles (logger{entry}): sequence of [Logger, Data]
    pc,         \* per call path: "idle", "sourced", "logged", "panicked"
    call,       \* per call path: the emission call in progress, with the
                \* entry sourced() returned and the line the engine wrote
    exited,     \* TRUE once logger.Exit(1) has ended the process
    ret,        \* the value GetLevel() returned last
    configured, \* the Config that Init applied last, NoConfig before any Init
    number,     \* IDCard.Number under validation
    verdict     \* what IDCard.Validate returned for it

vars == <<loggers, entries, pc, call, exited, ret, configured, number, verdict>>

logVars == <<loggers, entries, pc, call, exited, ret, configured>>

idVars == <<number, verdict>>

(***************************************************************************)
(* Bounds of the model.                                                    *)
(***************************************************************************)
\* The facade handles a behaviour creates, baseLogger included.
MaxHandles == 3

(***************************************************************************)
(* Go string helpers.                                                      *)
(***************************************************************************)
\* strings.LastIndex(s, ch): 0-based index of the last ch in s, -1 if none.
LastIndex(s, ch) ==
    LET hits == {i \in 1..Len(s) : s[i] = ch}
    IN  IF hits = {} THEN -1
        ELSE (CHOOSE i \in hits : \A j \in hits : j <= i) - 1

\* s[k:] with a 0-based start.
SliceFrom(s, k) == SubSeq(s, k + 1, Len(s))

\* s[a:b], 0-based, half open.
Slice(s, a, b) == SubSeq(s, a + 1, b)

DigitChars == <<"0", "1", "2", "3", "4", "5", "6", "7", "8", "9">>

\* The %d verb of fmt.Sprintf for a non-negative int.
RECURSIVE Itoa(_)
Itoa(n) == IF n < 10 THEN <<DigitChars[n + 1]>>
           ELSE Itoa(n \div 10) \o <<DigitChars[(n % 10) + 1]>>

\* fmt.Sprintf("%s:%d", file, line)
SprintfSrc(file, line) == file \o <<":">> \o Itoa(line)

(***************************************************************************)
(* Severity levels (log.go) and the logrus engine's data.                  *)
(***************************************************************************)
PanicLevel == 0
FatalLevel == 1
ErrorLevel == 2
WarnLevel  == 3
InfoLevel  == 4
DebugLevel == 5
TraceLevel == 6

Levels == PanicLevel..TraceLevel

\* The eight method families of the facade, in source order.
Kinds == <<"Trace", "Debug", "Print", "Info", "Warn", "Error", "Fatal", "Panic">>

KindSet == {Kinds[i] : i \in 1..Len(Kinds)}

KindIndex(kind) == CHOOSE i \in 1..Len(Kinds) : Kinds[i] = kind

\* The three call conventions: Info, Infof, Infoln.
Convs == <<"", "f", "ln">>

ConvSet == {Convs[i] : i \in 1..Len(Convs)}

ConvIndex(conv) == CHOOSE i \in 1..Len(Convs) : Convs[i] = conv

\* A facade whose Debug methods were pasted from Info: logger.Debug calls
\* Entry.Info.
DelegateDebugAsInfo(kind) == IF kind = "Debug" THEN "Info" ELSE kind

\* A facade whose Fatal methods were pasted from Error: logger.Fatal calls
\* Entry.Error.
DelegateFatalAsError(kind) == IF kind = "Fatal" THEN "Error" ELSE kind

\* The engine method a facade method hands its arguments to:
\* logger.Trace calls Entry.Trace, logger.Print calls Entry.Print, ...
\* (and likewise for the f and ln conventions and the package functions).
DelegateKind(kind) ==
    CASE kind = "Trace" -> "Trace"
      [] kind = "Debug" -> "Debug"
      [] kind = "Print" -> "Print"
      [] kind = "Info"  -> "Info"
      [] kind = "Warn"  -> "Warn"
      [] kind = "Error" -> "Error"
      [] kind = "Fatal" -> "Fatal"
      [] kind = "Panic" -> "Panic"

\* The level logrus' Entry.<Kind> logs at; Entry.Print is Entry.Info.
KindLevel(kind) ==
    CASE kind = "Trace" -> TraceLevel
      [] kind = "Debug" -> DebugLevel
      [] kind = "Print" -> InfoLevel
      [] kind = "Info"  -> InfoLevel
      [] kind = "Warn"  -> WarnLevel
      [] kind = "Error" -> ErrorLevel
      [] kind = "Fatal" -> FatalLevel
      [] kind = "Panic" -> PanicLevel

\* os.Stderr, os.Stdout and caller-supplied writers.
Stderr == [type |-> "stream", name |-> "stderr"]
Stdout == [type |-> "stream", name |-> "stdout"]
Buffer(n) == [type |-> "buffer", name |-> n]

\* logrus.New(): Out is os.Stderr, Level is InfoLevel.
LogrusNew == [Level |-> InfoLevel, Out |-> Stderr]

NoData == [k \in {} |-> 0]

\* logrus.NewEntry(logger): no fields yet.
NewEntry(lg) == [Logger |-> lg, Data |-> NoData]

\* Entry.WithField: a new entry whose data is a copy of the old one with
\* the field set; the receiver's data is left as it was.
WithField(entry, key, value) ==
    [Logger |-> entry.Logger, Data |-> (key :> value) @@ entry.Data]

\* logrus.ErrorKey
ErrorKey == "error"

\* Entry.WithError(err) is WithField(ErrorKey, err).
EntryWithError(entry, err) == WithField(entry, ErrorKey, err)

\* Logger.IsLevelEnabled(level): logger.level() >= level.
IsLevelEnabled(lg, level) == loggers[lg].Level >= level

\* The sinks a write to out reaches: io.MultiWriter writes to each member,
\* the lumberjack logger to its Filename.
RECURSIVE SinksOf(_)
SinksOf(out) ==
    CASE out.type = "multi" ->
           UNION {SinksOf(out.writers[i]) : i \in 1..Len(out.writers)}
      [] out.type = "lumberjack" -> {[file |-> out.Filename]}
      [] OTHER -> {out}

(***************************************************************************)
(* Call stacks and the caller-site resolver.                               *)
(***************************************************************************)
LogGoFile == <<"/", "g", "o", "/", "l", "o", "g", "/", "l", "o", "g", ".", "g", "o">>

MainGoFile == <<"/", "a", "p", "p", "/", "m", "a", "i", "n", ".", "g", "o">>

JobGoFile == <<"/", "a", "p", "p", "/", "j", "o", "b", "/", "w", ".", "g", "o">>

\* The application call sites the facade is called from; name is how the
\* site reads in a log line.
Sites == {[file |-> MainGoFile, line |-> 10,
           name |-> <<"m", "a", "i", "n", ".", "g", "o", ":", "1", "0">>],
          [file |-> MainGoFile, line |-> 27,
           name |-> <<"m", "a", "i", "n", ".", "g", "o", ":", "2", "7">>],
          [file |-> JobGoFile, line |-> 10,
           name |-> <<"w", ".", "g", "o", ":", "1", "0">>]}

\* The frame of sourced() itself: runtime.Caller is called at log.go:217.
SourcedFrame == [file |-> LogGoFile, line |-> 217]

\* The line of log.go at which the facade method calls sourced().
MethodLine(kind, conv) ==
    CASE conv = ""   -> 112 + 5 * (KindIndex(kind) - 1)
      [] conv = "f"  -> 151 + 4 * (KindIndex(kind) - 1)
      [] conv = "ln" -> 183 + 4 * (KindIndex(kind) - 1)

FuncLine(kind, conv) ==
    292 + 12 * (KindIndex(kind) - 1) + 4 * (ConvIndex(conv) - 1)

\* runtime.Caller(skip) on a stack whose innermost frame comes first.
Caller(frames, skip) ==
    IF skip + 1 <= Len(frames)
    THEN [ok |-> TRUE, file |-> frames[skip + 1].file, line |-> frames[skip + 1].line]
    ELSE [ok |-> FALSE, file |-> <<>>, line |-> 0]

\* The skip count sourced() passes to runtime.Caller.
CallerSkip == 2

\* A sourced() that leaves an src field the entry already carries.
sourcedKeepFirst(entry, frames) ==
    LET c == Caller(frames, CallerSkip)
        file == SliceFrom(c.file, LastIndex(c.file, "/") + 1)
    IN  IF "src" \in DOMAIN entry.Data THEN entry
        ELSE WithField(entry, "src", SprintfSrc(file, c.line))

\* logger.sourced(): a new entry with the src field of the caller.
sourced(entry, frames) ==
    LET c == Caller(frames, CallerSkip)
        file == IF ~c.ok THEN <<"<", "?", "?", "?", ">">>
                ELSE SliceFrom(c.file, LastIndex(c.file, "/") + 1)
        line == IF ~c.ok THEN 1 ELSE c.line
    IN  WithField(entry, "src", SprintfSrc(file, line))

(***************************************************************************)
(* The facade: state after package initialisation.                         *)
(***************************************************************************)
\* var origLogger = logrus.New(): the first logger object of the heap.
origLogger == 1

\* var baseLogger = logger{entry: logrus.NewEntry(origLogger)}: handle 1.
baseLogger == 1

Procs == {1, 2}

NoCall == [kind |-> "none"]

NoConfig == [File |-> <<>>, Level |-> <<"-">>]

\* The lifecycle state of the default logger.
Lifecycle == IF configured = NoConfig THEN "Uninitialized" ELSE "Configured"

NoLine == [level |-> -1]

NoNumber == <<>>

NoVerdict == [flag |-> FALSE, err |-> "unset"]

LogInit ==
    /\ loggers = <<LogrusNew>>
    /\ entries = <<NewEntry(origLogger)>>
    /\ pc = [g \in Procs |-> "idle"]
    /\ call = [g \in Procs |-> NoCall]
    /\ exited = FALSE
    /\ ret = InfoLevel
    /\ configured = NoConfig

Init ==
    /\ LogInit
    /\ number = NoNumber
    /\ verdict = NoVerdict

Idle(g) == ~exited /\ pc[g] = "idle"

Handles == 1..Len(entries)

(***************************************************************************)
(* Handle construction.                                                    *)
(***************************************************************************)
\* A New() that builds its own engine, logrus.NewEntry(logrus.New()),
\* instead of sharing origLogger.
NewOwnEngine(g) ==
    /\ Idle(g)
    /\ Len(entries) < MaxHandles
    /\ loggers' = Append(loggers, LogrusNew)
    /\ entries' = Append(entries, NewEntry(Len(loggers) + 1))
    /\ UNCHANGED <<pc, call, exited, ret, configured, idVars>>

\* New(): a fresh entry over the shared origLogger.
New(g) ==
    /\ Idle(g)
    /\ Len(entries) < MaxHandles
    /\ entries' = Append(entries, NewEntry(origLogger))
    /\ UNCHANGED <<loggers, pc, call, exited, ret, configured, idVars>>

\* A With that sets the field in the receiver's own data and hands the
\* same data to the new handle.
WithInPlace(g, h, key, value) ==
    /\ Idle(g)
    /\ h \in Handles
    /\ Len(entries) < MaxHandles
    /\ entries' = Append([entries EXCEPT ![h] = WithField(entries[h], key, value)],
                         WithField(entries[h], key, value))
    /\ UNCHANGED <<loggers, pc, call, exited, ret, configured, idVars>>

\* logger.With(key, value)
With(g, h, key, value) ==
    /\ Idle(g)
    /\ h \in Handles
    /\ Len(entries) < MaxHandles
    /\ entries' = Append(entries, WithField(entries[h], key, value))
    /\ UNCHANGED <<loggers, pc, call, exited, ret, configured, idVars>>

\* logger.WithError(err)
WithError(g, h, err) ==
    /\ Idle(g)
    /\ h \in Handles
    /\ Len(entries) < MaxHandles
    /\ entries' = Append(entries, EntryWithError(entries[h], err))
    /\ UNCHANGED <<loggers, pc, call, exited, ret, configured, idVars>>

\* The package-level With(key, value): baseLogger.With(key, value).
PkgWith(g, key, value) == With(g, baseLogger, key, value)

\* The package-level WithError(err), called from site:
\* logger{entry: baseLogger.sourced().WithError(err)}.
PkgWithError(g, site, err) ==
    /\ Idle(g)
    /\ Len(entries) < MaxHandles
    /\ LET frames == <<SourcedFrame, [file |-> LogGoFile, line |-> 288], site>>
       IN  entries' = Append(entries,
                         EntryWithError(sourced(entries[baseLogger], frames), err))
    /\ UNCHANGED <<loggers, pc, call, exited, ret, configured, idVars>>

(***************************************************************************)
(* Shared configuration.                                                   *)
(***************************************************************************)
\* logger.SetLevel(level): l.entry.Logger.Level = level
SetLevel(g, h, level) ==
    /\ Idle(g)
    /\ h \in Handles
    /\ loggers' = [loggers EXCEPT ![entries[h].Logger].Level = level]
    /\ UNCHANGED <<entries, pc, call, exited, ret, configured, idVars>>

\* logger.SetOut(out): l.entry.Logger.Out = out
SetOut(g, h, out) ==
    /\ Idle(g)
    /\ h \in Handles
    /\ loggers' = [loggers EXCEPT ![entries[h].Logger].Out = out]
    /\ UNCHANGED <<entries, pc, call, exited, ret, configured, idVars>>

\* The package-level SetLevel(level), on baseLogger's engine.
PkgSetLevel(g, level) ==
    /\ Idle(g)
    /\ loggers' = [loggers EXCEPT ![entries[baseLogger].Logger].Level = level]
    /\ UNCHANGED <<entries, pc, call, exited, ret, configured, idVars>>

\* The package-level SetOut(out).
PkgSetOut(g, out) ==
    /\ Idle(g)
    /\ loggers' = [loggers EXCEPT ![entries[baseLogger].Logger].Out = out]
    /\ UNCHANGED <<entries, pc, call, exited, ret, configured, idVars>>

\* GetLevel(): the level of baseLogger's engine.
GetLevel(g) ==
    /\ Idle(g)
    /\ ret' = loggers[entries[baseLogger].Logger].Level
    /\ UNCHANGED <<loggers, entries, pc, call, exited, configured, idVars>>

(***************************************************************************)
(* Emission: the facade method stamps the caller, the engine gates, writes *)
(* and, for the terminal severities, ends the process or panics.           *)
(***************************************************************************)
\* l.<Kind><conv>(args...), called from site: l.sourced() has returned the
\* stamped entry and the engine's method is about to run.
Emit(g, h, kind, conv, site) ==
    /\ Idle(g)
    /\ h \in Handles
    /\ LET frames == <<SourcedFrame,
                       [file |-> LogGoFile, line |-> MethodLine(kind, conv)], site>>
       IN  call' = [call EXCEPT ![g] = [kind |-> kind, site |-> site, handle |-> h,
                                        method |-> DelegateKind(kind),
                                        entry |-> sourced(entries[h], frames),
                                        wrote |-> FALSE, line |-> NoLine]]
    /\ pc' = [pc EXCEPT ![g] = "sourced"]
    /\ UNCHANGED <<loggers, entries, exited, ret, configured, idVars>>

\* The package-level <Kind><conv>(args...): baseLogger.sourced().<Kind>...
PkgEmit(g, kind, conv, site) ==
    /\ Idle(g)
    /\ LET frames == <<SourcedFrame,
                       [file |-> LogGoFile, line |-> FuncLine(kind, conv)], site>>
       IN  call' = [call EXCEPT ![g] = [kind |-> kind, site |-> site,
                                        handle |-> baseLogger,
                                        method |-> DelegateKind(kind),
                                        entry |-> sourced(entries[baseLogger], frames),
                                        wrote |-> FALSE, line |-> NoLine]]
    /\ pc' = [pc EXCEPT ![g] = "sourced"]
    /\ UNCHANGED <<loggers, entries, exited, ret, configured, idVars>>

\* The line entry.write() hands to the logger's Out.
LineOf(entry, level) ==
    [level |-> level, data |-> entry.Data, dest |-> SinksOf(loggers[entry.Logger].Out)]

\* Whether entry.log panics after writing: level <= PanicLevel.
PanicsAfterWrite(level) == level <= PanicLevel

\* logrus Entry.Log(level, args...): if the level is enabled, write the
\* line, and panic after the write when the level is PanicLevel.
EntryLog(g) ==
    /\ ~exited
    /\ pc[g] = "sourced"
    /\ LET level == KindLevel(call[g].method)
       IN  IF IsLevelEnabled(call[g].entry.Logger, level)
           THEN /\ call' = [call EXCEPT ![g].wrote = TRUE,
                                         ![g].line = LineOf(call[g].entry, level)]
                /\ pc' = [pc EXCEPT ![g] =
                            IF PanicsAfterWrite(level) THEN "panicked" ELSE "logged"]
           ELSE /\ pc' = [pc EXCEPT ![g] = "logged"]
                /\ UNCHANGED call
    /\ UNCHANGED <<loggers, entries, exited, ret, configured, idVars>>

\* Whether the engine's method calls logger.Exit(1) once Log has returned:
\* Entry.Fatal, Fatalf and Fatalln do, whether or not a line was written.
ExitsAfterLog(method, wrote) == method = "Fatal"

\* After Log has returned: Fatal* exits the process, every other method
\* returns to the facade method, which returns to its caller.
EntryReturn(g) ==
    /\ ~exited
    /\ pc[g] = "logged"
    /\ IF ExitsAfterLog(call[g].method, call[g].wrote)
       THEN /\ exited' = TRUE
            /\ UNCHANGED <<pc, call>>
       ELSE /\ pc' = [pc EXCEPT ![g] = "idle"]
            /\ call' = [call EXCEPT ![g] = NoCall]
            /\ UNCHANGED exited
    /\ UNCHANGED <<loggers, entries, ret, configured, idVars>>

(***************************************************************************)
(* Init(config): paths, level names and the helpers Init calls.            *)
(***************************************************************************)
UpperChars == <<"A", "B", "C", "D", "E", "F", "G", "H", "I", "J", "K", "L", "M", "N", "O", "P", "Q", "R", "S", "T", "U", "V", "W", "X", "Y", "Z">>

LowerChars == <<"a", "b", "c", "d", "e", "f", "g", "h", "i", "j", "k", "l", "m", "n", "o", "p", "q", "r", "s", "t", "u", "v", "w", "x", "y", "z">>

\* strings.ToLower, as logrus.ParseLevel applies it: A-Z become a-z.
ToLower(s) ==
    [i \in 1..Len(s) |->
        IF \E k \in 1..Len(UpperChars) : UpperChars[k] = s[i]
        THEN LowerChars[CHOOSE k \in 1..Len(UpperChars) : UpperChars[k] = s[i]]
        ELSE s[i]]

\* logrus.ParseLevel(lvl): the names the engine recognises, after ToLower.
ParseLevel(lvl) ==
    LET l == ToLower(lvl)
    IN  CASE l = <<"p", "a", "n", "i", "c">> -> [level |-> PanicLevel, err |-> FALSE]
          [] l = <<"f", "a", "t", "a", "l">> -> [level |-> FatalLevel, err |-> FALSE]
          [] l = <<"e", "r", "r", "o", "r">> -> [level |-> ErrorLevel, err |-> FALSE]
          [] l = <<"w", "a", "r", "n">> -> [level |-> WarnLevel, err |-> FALSE]
          [] l = <<"w", "a", "r", "n", "i", "n", "g">> -> [level |-> WarnLevel, err |-> FALSE]
          [] l = <<"i", "n", "f", "o">> -> [level |-> InfoLevel, err |-> FALSE]
          [] l = <<"d", "e", "b", "u", "g">> -> [level |-> DebugLevel, err |-> FALSE]
          [] l = <<"t", "r", "a", "c", "e">> -> [level |-> TraceLevel, err |-> FALSE]
          [] OTHER -> [level |-> PanicLevel, err |-> TRUE]

\* The elements of a slash-separated path, empty ones included.
RECURSIVE SplitPath(_)
SplitPath(p) ==
    LET i == LastIndex(p, "/")
    IN  IF i = -1 THEN <<p>>
        ELSE Append(SplitPath(Slice(p, 0, i)), SliceFrom(p, i + 1))

RECURSIVE JoinElems(_)
JoinElems(es) ==
    IF Len(es) = 0 THEN <<>>
    ELSE IF Len(es) = 1 THEN es[1]
    ELSE JoinElems(SubSeq(es, 1, Len(es) - 1)) \o <<"/">> \o es[Len(es)]

\* path.Clean for paths without "..": empty and "." elements are dropped,
\* a rooted path stays rooted, the empty result is ".".
Clean(p) ==
    LET rooted == Len(p) > 0 /\ p[1] = "/"
        es == SelectSeq(SplitPath(p), LAMBDA e : e # <<>> /\ e # <<".">>)
        body == JoinElems(es)
    IN  IF rooted THEN <<"/">> \o body
        ELSE IF body = <<>> THEN <<".">> ELSE body

\* path.Join(dir, name): the non-empty arguments joined by "/" and cleaned.
PathJoin(dir, name) ==
    IF dir = <<>> /\ name = <<>> THEN <<>>
    ELSE IF dir = <<>> THEN Clean(name)
    ELSE IF name = <<>> THEN Clean(dir)
    ELSE Clean(dir \o <<"/">> \o name)

\* file.Dir(path): everything before the last element, cleaned.
FileDir(p) == Clean(Slice(p, 0, LastIndex(p, "/") + 1))

\* file.Basename(path): the last element.
FileBasename(p) ==
    LET b == SliceFrom(p, LastIndex(p, "/") + 1)
    IN  IF b = <<>> THEN <<".">> ELSE b

\* The file system Init runs against: the directories that can be ensured
\* readable and writable, the regular files and the directories that exist.
FsRWDirs == {<<"/", "v">>, <<".">>, <<"/">>}

FsFiles == {<<"/", "v", "/", "o", "l", "d", ".", "l", "o", "g">>}

FsDirs == {<<"/", "v">>, <<"/", "v", "/", "d">>, <<"/", "r", "o">>, <<"/">>, <<".">>}

\* file.EnsureDirRW(dir) returns an error.
EnsureDirRWFails(dir) == dir \notin FsRWDirs

\* file.IsExist(path)
IsExist(p) == p \in FsFiles \/ Clean(p) \in FsDirs

\* file.IsFile(path)
IsFile(p) == p \in FsFiles

\* The strings the generator is observed to return.
RandomPool == {<<"a", "a", "a", "a", "a", "a", "a", "a">>, <<"q", "w", "e", "r", "t", "y", "u", "i">>, <<"z", "z", "z", "z", "z", "z", "z", "z">>, <<"s", "h", "o", "r", "t", "i", "e">>, <<"U", "P", "P", "E", "R", "a", "b", "c">>}

\* random.Lowercase
Lowercase == {LowerChars[i] : i \in 1..Len(LowerChars)}

\* random.New().String(n, charset): some string of n characters of charset.
RandomString(n, charset) ==
    {s \in RandomPool : Len(s) = n /\ \A i \in 1..Len(s) : s[i] \in charset}

\* The length of the random fallback name.
FallbackLen == 8

LogExt == <<".", "l", "o", "g">>

\* The Config values Init is called with.
ConfigFiles == {<<"/", "v", "/", "a", ".", "l", "o", "g">>, <<"/", "v", "/", "o", "l", "d", ".", "l", "o", "g">>, <<"/", "r", "o", "/", "x", ".", "l", "o", "g">>, <<"/", "v", "/", "d">>, <<"a", ".", "l", "o", "g">>}

ConfigLevels == {<<"i", "n", "f", "o">>, <<"W", "A", "R", "N">>, <<"D", "e", "b", "u", "g">>, <<"w", "a", "r", "n", "i", "n", "g">>, <<"b", "o", "g", "u", "s">>, <<>>, <<"t", "r", "a", "c", "e">>,
                 <<"p", "a", "n", "i", "c">>, <<"F", "a", "t", "a", "l">>, <<"e", "r", "r", "o", "r">>}

Configs == [File : ConfigFiles, Level : ConfigLevels]

\* An Init that checks the directory only, not what config.File is.
PathRejectedDirOnly(config) == EnsureDirRWFails(FileDir(config.File))

\* Whether Init gives up on config.File and falls back.
PathRejected(config) ==
    \/ EnsureDirRWFails(FileDir(config.File))
    \/ (IsExist(config.File) /\ ~IsFile(config.File))

\* An Init that takes the random name whatever the path check says.
InitFilenameAlwaysRandom(config, rnd) == PathJoin(<<".", "/">>, rnd \o LogExt)

\* The name Init hands to the rotating file sink; rnd is the string the
\* random generator returns when it is asked.
InitFilename(config, rnd) ==
    IF PathRejected(config)
    THEN PathJoin(<<".", "/">>, rnd \o LogExt)
    ELSE PathJoin(FileDir(config.File), FileBasename(config.File))

\* An Init that drops the parse error and keeps the level ParseLevel
\* returned with it.
InitLevelNoFallback(config) == ParseLevel(config.Level).level

\* The level Init sets: the parsed one, InfoLevel when parsing fails.
InitLevel(config) ==
    LET r == ParseLevel(config.Level)
    IN  IF r.err THEN InfoLevel ELSE r.level

\* &lumberjack.Logger{Filename: ..., MaxSize: 500, MaxBackups: 3, ...}
Lumberjack(filename) ==
    [type |-> "lumberjack", Filename |-> filename, MaxSize |-> 500,
     MaxBackups |-> 3, MaxAge |-> 28, Compress |-> TRUE, LocalTime |-> TRUE]

\* io.MultiWriter(writers...)
MultiWriter(writers) == [type |-> "multi", writers |-> writers]

\* The output Init sets.
InitOut(config, rnd) == MultiWriter(<<Stdout, Lumberjack(InitFilename(config, rnd))>>)

\* Init(config): SetLevel(level) and SetOut(multi writer) on baseLogger.
InitConfig(g, config, rnd) ==
    /\ Idle(g)
    /\ configured' = config
    /\ rnd \in RandomString(FallbackLen, Lowercase)
    /\ loggers' = [loggers EXCEPT
                     ![entries[baseLogger].Logger] =
                         [Level |-> InitLevel(config), Out |-> InitOut(config, rnd)]]
    /\ UNCHANGED <<entries, pc, call, exited, ret, idVars>>

(***************************************************************************)
(* The ID-card validator (validator/id.go).                                *)
(***************************************************************************)
Digits == {DigitChars[i] : i \in 1..Len(DigitChars)}

\* The numeric value of a digit character.
DigitVal(c) == (CHOOSE i \in 1..Len(DigitChars) : DigitChars[i] = c) - 1

\* The number a string of digits denotes.
RECURSIVE Atoi(_)
Atoi(s) == IF Len(s) = 0 THEN 0
           ELSE 10 * Atoi(SubSeq(s, 1, Len(s) - 1)) + DigitVal(s[Len(s)])

AllDigits(s) == \A i \in 1..Len(s) : s[i] \in Digits

\* reg: ^(\d{6})(18|19|20)?(\d{2})(0\d|10|11|12)([012]\d|3[01])(\d{3})(\d|X)?$
\* c is the length of the optional century group, k of the optional check.
RegMatch(s) ==
    \E c \in {0, 2}, k \in {0, 1} :
        /\ Len(s) = 15 + c + k
        /\ AllDigits(Slice(s, 0, 6))
        /\ c = 2 => Slice(s, 6, 8) \in {<<"1", "8">>, <<"1", "9">>, <<"2", "0">>}
        /\ AllDigits(Slice(s, 6 + c, 8 + c))
        /\ \/ s[9 + c] = "0" /\ s[10 + c] \in Digits
           \/ s[9 + c] = "1" /\ s[10 + c] \in {"0", "1", "2"}
        /\ \/ s[11 + c] \in {"0", "1", "2"} /\ s[12 + c] \in Digits
           \/ s[11 + c] = "3" /\ s[12 + c] \in {"0", "1"}
        /\ AllDigits(Slice(s, 12 + c, 15 + c))
        /\ k = 1 => s[16 + c] \in Digits \cup {"X"}

\* The keys of the area table, as written in the source.
area == {<<"1", "1">>, <<"1", "2">>, <<"1", "3">>, <<"1", "4">>, <<"1", "5">>,
         <<"2", "1">>, <<"2", "2">>, <<"2", "3">>, <<" ", "3", "1">>, <<"3", "2">>,
         <<"3", "3">>, <<"3", "4">>, <<"3", "5">>, <<"3", "6">>, <<"3", "7">>,
         <<"4", "1">>, <<"4", "2">>, <<"4", "3">>, <<"4", "4">>, <<"4", "5">>,
         <<"4", "6">>, <<"5", "0">>, <<"5", "1">>, <<"5", "2">>, <<"5", "3">>,
         <<"5", "4">>, <<"6", "1">>, <<"6", "2">>, <<"6", "3">>, <<"6", "4">>,
         <<"6", "5">>, <<"7", "1">>, <<"8", "1">>, <<"8", "2">>, <<"9", "1">>}

IsLeap(y) == (y % 4 = 0 /\ y % 100 # 0) \/ y % 400 = 0

DaysIn(y, m) ==
    CASE m = 2 -> IF IsLeap(y) THEN 29 ELSE 28
      [] m \in {4, 6, 9, 11} -> 30
      [] OTHER -> 31

\* time.Parse("20060102", s): a four-digit year, a month 01-12 and a day
\* that exists in that month.
ParseDate(s) ==
    IF Len(s) # 8 \/ ~AllDigits(s) THEN [ok |-> FALSE, date |-> <<0, 0, 0>>]
    ELSE LET y == Atoi(Slice(s, 0, 4))
             m == Atoi(Slice(s, 4, 6))
             d == Atoi(Slice(s, 6, 8))
         IN  IF m \in 1..12 /\ d >= 1 /\ d <= DaysIn(y, m)
             THEN [ok |-> TRUE, date |-> <<y, m, d>>]
             ELSE [ok |-> FALSE, date |-> <<0, 0, 0>>]

\* time.Date(y, m, d, 0, ...) for m, d >= 0: month 0 is December of the
\* year before, day 0 the last day of the month before.
NormDate(y, m, d) ==
    LET y1 == IF m = 0 THEN y - 1 ELSE y
        m1 == IF m = 0 THEN 12 ELSE m
        y2 == IF d = 0 /\ m1 = 1 THEN y1 - 1 ELSE y1
        m2 == IF d = 0 THEN (IF m1 = 1 THEN 12 ELSE m1 - 1) ELSE m1
        d2 == IF d = 0 THEN DaysIn(y2, m2) ELSE d
    IN  <<y2, m2, d2>>

\* Time.Before on calendar days.
DateBefore(a, b) ==
    \/ a[1] < b[1]
    \/ a[1] = b[1] /\ a[2] < b[2]
    \/ a[1] = b[1] /\ a[2] = b[2] /\ a[3] < b[3]

\* Time.After
DateAfter(a, b) == DateBefore(b, a)

\* min_date = time.Date(1890, 0, 0, 0, 0, 0, 0, time.Local)
min_date == NormDate(1890, 0, 0)

\* max_date = time.Now(), taken when the package is initialised.
max_date == <<2024, 6, 15>>

weight == <<7, 9, 10, 5, 8, 4, 2, 1, 6, 3, 7, 9, 10, 5, 8, 4, 2>>

code == <<"1", "0", "X", "9", "8", "7", "6", "5", "4", "3", "2">>

\* validateReg
validateReg(s) == IF RegMatch(s) THEN "nil" ELSE "ErrFormatInvalid"

\* A validateArea whose table has Shanghai under "31".
validateAreaShanghai(s) ==
    IF Slice(s, 0, 2) \in area \cup {<<"3", "1">>} THEN "nil" ELSE "ErrAddressInvalid"

\* validateArea: the first two characters are looked up in area.
validateArea(s) == IF Slice(s, 0, 2) \in area THEN "nil" ELSE "ErrAddressInvalid"

\* The range test of validateBirth: date.After(max_date) && date.Before(min_date)
BirthOutOfRange(date) == DateAfter(date, max_date) /\ DateBefore(date, min_date)

\* validateBirth
validateBirth(s) ==
    LET p == ParseDate(Slice(s, 6, 14))
    IN  IF ~p.ok THEN "ErrBirthFormatInvalid"
        ELSE IF BirthOutOfRange(p.date) THEN "ErrBirthRangeInvalid"
        ELSE "nil"

\* strconv.ParseFloat of one character, its error dropped, as an int.
CharVal(c) == IF c \in Digits THEN DigitVal(c) ELSE 0

RECURSIVE WeightedSum(_, _)
WeightedSum(s, n) ==
    IF n = 0 THEN 0 ELSE WeightedSum(s, n - 1) + CharVal(s[n]) * weight[n]

\* validateSum
validateSum(s) ==
    IF code[(WeightedSum(s, Len(s) - 1) % 11) + 1] = s[Len(s)]
    THEN "nil" ELSE "ErrSumInvalid"

\* IDCard.Validate: the first check that fails decides.
Validate(s) ==
    IF validateReg(s) # "nil" THEN [flag |-> FALSE, err |-> validateReg(s)]
    ELSE IF validateArea(s) # "nil" THEN [flag |-> FALSE, err |-> validateArea(s)]
    ELSE IF validateBirth(s) # "nil" THEN [flag |-> FALSE, err |-> validateBirth(s)]
    ELSE IF validateSum(s) # "nil" THEN [flag |-> FALSE, err |-> validateSum(s)]
    ELSE [flag |-> TRUE, err |-> "nil"]

\* The numbers Validate is called with: area code, county, optional
\* century, year, month, day, sequence number, optional check character.
AreaSamples == {<<"1", "1">>, <<"3", "1">>, <<"3", "2">>, <<"9", "9">>, <<"9", "1">>, <<"3", "X">>}

CenturySamples == {<<>>, <<"1", "8">>, <<"1", "9">>, <<"2", "0">>}

YearSamples == {<<"5", "0">>, <<"8", "8">>, <<"9", "9">>, <<"0", "0">>}

MonthSamples == {<<"0", "0">>, <<"0", "2">>, <<"0", "6">>, <<"1", "2">>, <<"1", "3">>}

DaySamples == {<<"0", "0">>, <<"1", "5">>, <<"2", "9">>, <<"3", "0">>, <<"3", "1">>, <<"3", "2">>}

CheckSamples == {<<>>} \cup {<<c>> : c \in Digits \cup {"X", "x"}}

Numbers ==
    {a \o <<"0", "1", "0", "1">> \o c \o y \o m \o d \o <<"1", "2", "3">> \o k :
        a \in AreaSamples, c \in CenturySamples, y \in YearSamples,
        m \in MonthSamples, d \in DaySamples, k \in CheckSamples}

\* i := IDCard{Number: n}; i.Validate()
ValidateCall ==
    /\ verdict = NoVerdict
    /\ verdict' = Validate(number)
    /\ UNCHANGED <<number, logVars>>

(***************************************************************************)
(* Specifications.  Each one runs the operations its claims are about,     *)
(* with their arguments drawn from the sets below.                         *)
(***************************************************************************)
FieldPairs == {<<"a", 1>>, <<"b", 2>>}

Errors == {"e1"}

Writers == {Buffer("w1"), Buffer("w2")}

MainSite == CHOOSE s \in Sites : s.file = MainGoFile /\ s.line = 10

\* The value of a field the application itself names src.
UserSrc == <<"u", "s", "e", "r">>

\* Where the application calls the package-level WithError.
StampSite == CHOOSE s \in Sites : s.file = MainGoFile /\ s.line = 27

\* The sites each call path calls the facade from.
SitesOf(g) == IF g = 1 THEN {s \in Sites : s.file = MainGoFile}
              ELSE {s \in Sites : s.file = JobGoFile}

\* Level gating and the terminal severities: call path 1 creates handles
\* and emits, either call path changes the level.
Next ==
    \/ New(1)
    \/ \E h \in Handles : With(1, h, "a", 1)
    \/ \E g \in Procs, h \in Handles, level \in Levels : SetLevel(g, h, level)
    \/ \E g \in Procs, level \in Levels : PkgSetLevel(g, level)
    \/ \E h \in Handles, kind \in KindSet, conv \in ConvSet :
          Emit(1, h, kind, conv, MainSite)
    \/ \E kind \in KindSet, conv \in ConvSet : PkgEmit(1, kind, conv, MainSite)
    \/ EntryLog(1)
    \/ EntryReturn(1)

Spec == Init /\ [][Next]_vars

\* Shared configuration: every way of making a handle, every way of
\* setting and reading the level and the output.
NextConfig ==
    \/ New(1)
    \/ \E h \in Handles : With(1, h, "a", 1)
    \/ \E h \in Handles, e \in Errors : WithError(1, h, e)
    \/ PkgWith(1, "b", 2)
    \/ \E e \in Errors : PkgWithError(1, MainSite, e)
    \/ \E h \in Handles, level \in Levels : SetLevel(1, h, level)
    \/ \E level \in Levels : PkgSetLevel(1, level)
    \/ \E h \in Handles, w \in Writers : SetOut(1, h, w)
    \/ \E w \in Writers : PkgSetOut(1, w)
    \/ GetLevel(1)
    \/ \E h \in Handles : Emit(1, h, "Error", "", MainSite)
    \/ EntryLog(1)
    \/ EntryReturn(1)

SpecConfig == Init /\ [][NextConfig]_vars

\* Field chains: one call path attaches fields and errors and emits
\* through every handle.
NextChain ==
    \/ New(1)
    \/ \E h \in Handles, f \in FieldPairs : With(1, h, f[1], f[2])
    \/ \E h \in Handles, e \in Errors : WithError(1, h, e)
    \/ \E f \in FieldPairs : PkgWith(1, f[1], f[2])
    \/ \E h \in Handles, kind \in KindSet, conv \in ConvSet :
          Emit(1, h, kind, conv, MainSite)
    \/ \E kind \in KindSet, conv \in ConvSet : PkgEmit(1, kind, conv, MainSite)
    \/ EntryLog(1)
    \/ EntryReturn(1)

SpecChain == Init /\ [][NextChain]_vars

\* Caller sites: two call paths emit concurrently, through handles that
\* already carry a src field (from the package-level WithError, or set by
\* the application) and through the base logger.
NextSites ==
    \/ \E e \in Errors : PkgWithError(1, StampSite, e)
    \/ \E h \in Handles : With(1, h, "src", UserSrc)
    \/ PkgSetLevel(1, TraceLevel)
    \/ \E g \in Procs, h \in Handles, kind \in KindSet, conv \in ConvSet :
          \E s \in SitesOf(g) : Emit(g, h, kind, conv, s)
    \/ \E g \in Procs, kind \in KindSet, conv \in ConvSet :
          \E s \in SitesOf(g) : PkgEmit(g, kind, conv, s)
    \/ \E g \in Procs : EntryLog(g)
    \/ \E g \in Procs : EntryReturn(g)

SpecSites == Init /\ [][NextSites]_vars

\* The default logger's configured: Init, the package-level setters and
\* emission through the package-level functions.
NextInit ==
    \/ \E config \in Configs, rnd \in RandomPool : InitConfig(1, config, rnd)
    \/ \E level \in {WarnLevel, TraceLevel} : PkgSetLevel(1, level)
    \/ PkgSetOut(1, Stderr)
    \/ PkgEmit(1, "Info", "", MainSite)
    \/ EntryLog(1)
    \/ EntryReturn(1)

SpecInit == Init /\ [][NextInit]_vars

\* The validator: Validate applied to each number of Numbers.
InitID ==
    /\ LogInit
    /\ number \in Numbers
    /\ verdict = NoVerdict

NextID == ValidateCall

SpecID == InitID /\ [][NextID]_vars



(***************************************************************************)
(* Claims.                                                                 *)
(***************************************************************************)
\* The severity a facade method emits at, in the ordering Panic=0 < Fatal
\* < Error < Warn < Info < Debug < Trace=6; Print emits at Info.
SeverityOf(kind) ==
    CASE kind = "Panic" -> 0
      [] kind = "Fatal" -> 1
      [] kind = "Error" -> 2
      [] kind = "Warn"  -> 3
      [] kind \in {"Info", "Print"} -> 4
      [] kind = "Debug" -> 5
      [] kind = "Trace" -> 6

\* The level every handle is configured with.
SharedLevel == loggers[origLogger].Level

\* C1: level gating.  When the engine decides an emission of severity L,
\* it writes a line if and only if L <= C, where C is the level configured
\* at that moment, whichever handle the call went through and whenever
\* that handle was made; the line carries the severity L.
C1_LevelGating ==
    [][\A g \in Procs :
          (pc[g] = "sourced" /\ pc'[g] # "sourced") =>
             /\ call'[g].wrote <=> SeverityOf(call[g].kind) <= SharedLevel
             /\ call'[g].wrote => call'[g].line.level = SeverityOf(call[g].kind)]_vars

\* C1 witness: after SetLevel(Warn), an Info call through a handle other
\* than the base logger has been decided and wrote nothing.
C1_Witness ==
    /\ pc[1] = "logged"
    /\ call[1].kind = "Info"
    /\ call[1].handle # baseLogger
    /\ ~call[1].wrote
    /\ SharedLevel = WarnLevel

\* C7: terminal severities.  A Fatal call never returns to its caller: once
\* the engine has logged (or dropped) the line, the only step left to the
\* call ends the process, at every configured level; a Panic call writes
\* its line and panics in the same engine step, and never returns.  The
\* step that ends the process writes nothing: the line was written before.
C7_TerminalSeverities ==
    [][\A g \in Procs :
          /\ (call[g].kind \in {"Fatal", "Panic"}) => pc'[g] # "idle"
          /\ (call[g].kind = "Fatal" /\ pc[g] = "sourced" /\ pc'[g] # "sourced") =>
                pc'[g] = "logged" /\ ~exited'
          /\ (call[g].kind = "Fatal" /\ pc[g] = "logged") =>
                pc'[g] = "logged" /\ call'[g] = call[g]
          /\ (call[g].kind = "Fatal" /\ pc[g] = "logged" /\ ENABLED EntryReturn(g)) =>
                (EntryReturn(g) => exited')
          /\ (call[g].kind = "Panic" /\ pc[g] = "sourced" /\ pc'[g] # "sourced") =>
                pc'[g] = "panicked" /\ call'[g].wrote
          /\ (~exited /\ exited') =>
                \E f \in Procs : call[f].kind = "Fatal" /\ pc[f] = "logged"
                                 /\ call'[f] = call[f]]_vars

\* C7 witness: the level is Panic, a Fatal call wrote nothing and the
\* process has exited all the same.
C7_Witness ==
    /\ exited
    /\ call[1].kind = "Fatal"
    /\ ~call[1].wrote
    /\ SharedLevel = PanicLevel

\* What handle h is configured with: the level and output of its engine.
Observed(h) == loggers[entries[h].Logger]

\* C3: shared configuration.  All handles, however made, observe one level
\* and one output.  A SetLevel or SetOut through any handle or through the
\* package functions changes what every handle observes to the value
\* passed; making a handle or reading the level changes nothing; GetLevel
\* returns the level every handle observes; and a line written through
\* any handle goes to the output every handle observes.
C3_SharedConfiguration ==
    [][/\ \A h \in 1..Len(entries') : Observed(h)' = Observed(baseLogger)'
       /\ \A h \in Handles, level \in Levels :
             (SetLevel(1, h, level) \/ PkgSetLevel(1, level)) =>
                \A k \in Handles : Observed(k)' =
                    [Level |-> level, Out |-> Observed(baseLogger).Out]
       /\ \A h \in Handles, w \in Writers :
             (SetOut(1, h, w) \/ PkgSetOut(1, w)) =>
                \A k \in Handles : Observed(k)' =
                    [Level |-> Observed(baseLogger).Level, Out |-> w]
       /\ entries' # entries => Observed(baseLogger)' = Observed(baseLogger)
       /\ ret' # ret => \A k \in Handles : ret' = Observed(k).Level
       /\ GetLevel(1) => ret' = Observed(Len(entries)).Level
       /\ (pc[1] = "sourced" /\ call'[1].wrote) =>
             call'[1].line.dest = {Observed(baseLogger).Out}]_vars

\* C3 witness: the level and the output were set through different
\* handles, GetLevel has returned the new level, and a line went through a
\* third handle to the new output.
C3_Witness ==
    /\ Len(entries) = 3
    /\ Observed(1).Out = Buffer("w2")
    /\ Observed(2).Level = ErrorLevel
    /\ ret = ErrorLevel
    /\ pc[1] = "logged"
    /\ call[1].handle = 3
    /\ call[1].wrote
    /\ call[1].line.dest = {Buffer("w2")}

\* The fields of a data map other than src.
Attached(data) == [k \in (DOMAIN data) \ {"src"} |-> data[k]]

\* C2: copy-on-attach.  No step changes the fields of an existing handle;
\* With and WithError add a handle whose fields are those of the handle
\* they were called on plus the one attached; and a line emitted through a
\* handle carries exactly that handle's fields, plus src.
C2_CopyOnAttach ==
    [][/\ \A h \in Handles : entries'[h] = entries[h]
       /\ \A h \in Handles, f \in FieldPairs :
             With(1, h, f[1], f[2]) =>
                entries'[Len(entries')].Data = (f[1] :> f[2]) @@ entries[h].Data
       /\ \A h \in Handles, e \in Errors :
             WithError(1, h, e) =>
                entries'[Len(entries')].Data = ("error" :> e) @@ entries[h].Data
       /\ (pc[1] = "sourced" /\ call'[1].wrote) =>
             /\ Attached(call'[1].line.data) = Attached(entries[call[1].handle].Data)
             /\ "src" \in DOMAIN call'[1].line.data]_vars

\* C2 witness: h1 = With("a", 1), h2 = h1.With("b", 2), and a line emitted
\* through h1 afterwards carries a and src, not b.
C2_Witness ==
    /\ Len(entries) = 3
    /\ entries[2].Data = ("a" :> 1)
    /\ entries[3].Data = ("a" :> 1) @@ ("b" :> 2)
    /\ pc[1] = "logged"
    /\ call[1].handle = 2
    /\ call[1].wrote
    /\ DOMAIN call[1].line.data = {"a", "src"}

\* C4: caller-site stamping.  In every interleaving of the two call paths,
\* the entry an emission call hands to the engine, and the line the engine
\* writes for it, carry under src the file:line of that call's own caller:
\* not a frame of log.go, not the site of the other call path, not the src
\* an earlier WithError or With left on the handle.
C4_CallerSite ==
    \A g \in Procs :
        call[g] # NoCall =>
            /\ "src" \in DOMAIN call[g].entry.Data
            /\ call[g].entry.Data["src"] = call[g].site.name
            /\ call[g].wrote => call[g].line.data["src"] = call[g].site.name

\* C4 witness: call path 1 has written a line through a handle that the
\* package-level WithError stamped at another site, while call path 2 is
\* in the middle of its own emission from its own site.
C4_Witness ==
    /\ pc[1] = "logged"
    /\ call[1].wrote
    /\ call[1].site = MainSite
    /\ "src" \in DOMAIN entries[call[1].handle].Data
    /\ entries[call[1].handle].Data["src"] = StampSite.name
    /\ call[1].line.data["src"] = MainSite.name
    /\ pc[2] = "sourced"
    /\ call[2].entry.Data["src"] # MainSite.name

\* Some Init(config) call is this step.
InitStep(config) == \E rnd \in RandomPool : InitConfig(1, config, rnd)

\* The level names the specification lists, with their severities.
ListedNames ==
    {<<<<"p", "a", "n", "i", "c">>, 0>>, <<<<"f", "a", "t", "a", "l">>, 1>>, <<<<"e", "r", "r", "o", "r">>, 2>>, <<<<"w", "a", "r", "n">>, 3>>,
     <<<<"i", "n", "f", "o">>, 4>>, <<<<"d", "e", "b", "u", "g">>, 5>>, <<<<"t", "r", "a", "c", "e">>, 6>>}

\* The level a name stands for, given the recognised names: the severity
\* of the name it equals when case is ignored, Info when there is none.
LevelNamed(names, s) ==
    IF \E n \in names : n[1] = ToLower(s)
    THEN (CHOOSE n \in names : n[1] = ToLower(s))[2]
    ELSE 4

\* C5 as stated: after Init the level is the severity Config.Level names
\* among panic, fatal, error, warn, info, debug, trace, and Info for every
\* other string.
C5_AsStated ==
    [][\A config \in Configs :
          InitStep(config) => SharedLevel' = LevelNamed(ListedNames, config.Level)]_vars

\* C5 (amended): every Init call completes and leaves the default logger
\* Configured; after it the level is the severity Config.Level names among panic, fatal,
\* error, warn, warning (also Warn), info, debug, trace, case ignored, and
\* Info for every other string, the empty one included.
C5_InitLevelFallback ==
    [][\A config \in Configs :
          InitStep(config) =>
             /\ Lifecycle' = "Configured"
             /\ SharedLevel' = LevelNamed(ListedNames \cup {<<<<"w", "a", "r", "n", "i", "n", "g">>, 3>>},
                                          config.Level)]_vars

\* C5 witness: Init was given a name that is no level, the level is Info
\* and an Info line has been written under it.
C5_Witness ==
    /\ configured # NoConfig
    /\ configured.Level = <<"b", "o", "g", "u", "s">>
    /\ SharedLevel = InfoLevel
    /\ pc[1] = "logged"
    /\ call[1].kind = "Info"
    /\ call[1].wrote

\* The configured files whose directory cannot be ensured readable and
\* writable, or that exist and are no regular file.
UnusableFiles == {<<"/", "r", "o", "/", "x", ".", "l", "o", "g">>, <<"/", "v", "/", "d">>}

\* Eight lowercase characters followed by ".log", in the working directory.
IsFallbackName(f) ==
    /\ Len(f) = 12
    /\ \A i \in 1..8 : f[i] \in Lowercase
    /\ SubSeq(f, 9, 12) = <<".", "l", "o", "g">>

\* The file sink of the output Init sets.
FileSink(out) == out.writers[2]

\* C6: Init path fallback.  Init never fails; it sets a two-way output of
\* standard output and a rotating file; the file is ./<8 random lowercase
\* characters>.log when the configured file is unusable and exactly the
\* configured file otherwise; a line written under that output reaches
\* standard output and that file.
C6_InitPathFallback ==
    [][/\ \A config \in Configs :
             InitStep(config) =>
                /\ Observed(baseLogger)'.Out.type = "multi"
                /\ Len(Observed(baseLogger)'.Out.writers) = 2
                /\ Observed(baseLogger)'.Out.writers[1] = Stdout
                /\ FileSink(Observed(baseLogger)'.Out).type = "lumberjack"
                /\ IF config.File \in UnusableFiles
                   THEN IsFallbackName(FileSink(Observed(baseLogger)'.Out).Filename)
                   ELSE FileSink(Observed(baseLogger)'.Out).Filename = config.File
       /\ (pc[1] = "sourced" /\ call'[1].wrote /\ Observed(baseLogger).Out.type = "multi") =>
             call'[1].line.dest =
                {Stdout, [file |-> FileSink(Observed(baseLogger).Out).Filename]}]_vars

\* C6 witness: Init was given a path that is a directory, and a line has
\* been written to standard output and to a fallback file.
C6_Witness ==
    /\ configured # NoConfig
    /\ configured.File = <<"/", "v", "/", "d">>
    /\ pc[1] = "logged"
    /\ call[1].wrote
    /\ \E s \in call[1].line.dest : "file" \in DOMAIN s /\ IsFallbackName(s.file)
    /\ Stdout \in call[1].line.dest

\* The shared configuration is one that Init(config) leaves.
IsOutcomeOf(config) ==
    \E rnd \in RandomString(FallbackLen, Lowercase) :
        Observed(baseLogger) = [Level |-> InitLevel(config), Out |-> InitOut(config, rnd)]

\* C8 as stated: Init(c) called again with the same config, on the
\* configuration the first call left, leaves the level and the output,
\* target file included, as they were.
C8_AsStated ==
    [][\A config \in Configs :
          (configured = config /\ IsOutcomeOf(config) /\ InitStep(config)) =>
             Observed(baseLogger)' = Observed(baseLogger)]_vars

\* C8 (amended): the default logger starts Uninitialized with level Info
\* and the engine's default output; Init makes it Configured and nothing
\* makes it Uninitialized again; Init(c) called again with the same config
\* leaves the level as it was, and leaves the output as it was when the
\* configured file is usable; when it is not, the output is again standard
\* output plus a file ./<8 random lowercase characters>.log, whose name
\* may differ from the first call's.
C8_InitLifecycle ==
    /\ (Lifecycle = "Uninitialized" /\ Observed(baseLogger) = [Level |-> 4, Out |-> Stderr])
    /\ [][/\ Lifecycle = "Configured" => Lifecycle' = "Configured"
          /\ \A config \in Configs :
                InitStep(config) => Lifecycle' = "Configured"
          /\ \A config \in Configs :
                (configured = config /\ IsOutcomeOf(config) /\ InitStep(config)) =>
                   /\ Observed(baseLogger)'.Level = Observed(baseLogger).Level
                   /\ Observed(baseLogger)'.Out.writers[1] = Stdout
                   /\ IF config.File \in UnusableFiles
                      THEN IsFallbackName(FileSink(Observed(baseLogger)'.Out).Filename)
                      ELSE Observed(baseLogger)'.Out = Observed(baseLogger).Out]_vars

\* C8 witness: Init has been applied with a usable file and the
\* configuration is the one it leaves, so that a second Init(c) re-applies
\* it.
C8_Witness ==
    /\ Lifecycle = "Configured"
    /\ configured.File = <<"/", "v", "/", "a", ".", "l", "o", "g">>
    /\ IsOutcomeOf(configured)
    /\ Idle(1)

\* The province codes listed in the area table other than Shanghai's.
OtherListedCodes ==
    {<<"1", "1">>, <<"1", "2">>, <<"1", "3">>, <<"1", "4">>, <<"1", "5">>,
     <<"2", "1">>, <<"2", "2">>, <<"2", "3">>, <<"3", "2">>, <<"3", "3">>,
     <<"3", "4">>, <<"3", "5">>, <<"3", "6">>, <<"3", "7">>, <<"4", "1">>,
     <<"4", "2">>, <<"4", "3">>, <<"4", "4">>, <<"4", "5">>, <<"4", "6">>,
     <<"5", "0">>, <<"5", "1">>, <<"5", "2">>, <<"5", "3">>, <<"5", "4">>,
     <<"6", "1">>, <<"6", "2">>, <<"6", "3">>, <<"6", "4">>, <<"6", "5">>,
     <<"7", "1">>, <<"8", "1">>, <<"8", "2">>, <<"9", "1">>}

\* The first two characters of a number.
Prefix(s) == SubSeq(s, 1, 2)

Validated == verdict # NoVerdict

\* C9: area check.  Of the numbers that pass the format check, those that
\* begin with 31 are rejected with ErrAddressInvalid, those that begin with
\* another listed province code pass the area check, and a number is
\* rejected with ErrAddressInvalid exactly when its first two characters
\* are no key of the area table.
C9_AreaCheck ==
    (Validated /\ RegMatch(number)) =>
        /\ Prefix(number) = <<"3", "1">> => verdict = [flag |-> FALSE, err |-> "ErrAddressInvalid"]
        /\ Prefix(number) \in OtherListedCodes => verdict.err # "ErrAddressInvalid"
        /\ verdict.err = "ErrAddressInvalid" <=> Prefix(number) \notin area

\* C9 witness: a well-formed number of Shanghai, with a real birth date
\* and the right check character, has been rejected for its area code.
C9_Witness ==
    /\ Validated
    /\ number = <<"3", "1", "0", "1", "0", "1", "1", "9", "8", "8", "0", "6", "1", "5", "1", "2", "3", "X">>
    /\ verdict = [flag |-> FALSE, err |-> "ErrAddressInvalid"]

\* The birth date a number carries in characters 7-14.
BirthOf(s) == ParseDate(SubSeq(s, 7, 14))

\* C10 as stated: a number that passes the format and area checks is
\* rejected with ErrBirthFormatInvalid when characters 7-14 are no calendar
\* date, and with ErrBirthRangeInvalid when the date is later than the
\* current time or earlier than the minimum date; only numbers born within
\* [min_date, max_date] reach the checksum check.
C10_BirthCheck ==
    (Validated /\ RegMatch(number) /\ Prefix(number) \in area) =>
        /\ ~BirthOf(number).ok => verdict = [flag |-> FALSE, err |-> "ErrBirthFormatInvalid"]
        /\ (BirthOf(number).ok /\ (DateAfter(BirthOf(number).date, max_date)
                                   \/ DateBefore(BirthOf(number).date, min_date))) =>
              verdict = [flag |-> FALSE, err |-> "ErrBirthRangeInvalid"]

=============================================================================
